---- MODULE Spec2Model ----
(***************************************************************************)
(* Inventory store of Sistema_Inventario: servicios/inventario.py          *)
(* (class Inventario) over modelos/producto.py (class Producto).           *)
(*                                                                         *)
(* Text is modelled as a sequence of one-character strings, a file as a    *)
(* record [existe, lineas] whose lineas are the texts between the "\n"     *)
(* terminators.  A float is modelled by a whole number n standing for the  *)
(* Python float n.0; the sample texts carry no other fractions, exponents, *)
(* "inf" or "nan".  ByteInvalido stands for a byte of the file that is no   *)
(* UTF-8.                                                                   *)
(***************************************************************************)
EXTENDS Integers, Sequences, FiniteSets, TLC

\* ------------------------------------------------------------------ bounds

\* number of injected I/O failures (open, write, replace, remove, read) per run
MaxFallos == 2

\* ------------------------------------------------------------ text helpers

Digitos == <<"0", "1", "2", "3", "4", "5", "6", "7", "8", "9">>

EsDigito(c) == \E i \in 1..10 : Digitos[i] = c

ValorDigito(c) == (CHOOSE i \in 1..10 : Digitos[i] = c) - 1

\* The recursive operators below take their argument through a one-element
\* set, { ... : s \in {arg} }: the argument is evaluated once and the body
\* works on its value.

\* str.lstrip() / str.rstrip() / str.strip() over the blank " "
RECURSIVE lstrip(_)
lstrip(arg) ==
    CHOOSE r \in { IF s = <<>> THEN s
                   ELSE IF Head(s) = " " THEN lstrip(Tail(s)) ELSE s
                   : s \in {arg} } : TRUE

RECURSIVE rstrip(_)
rstrip(arg) ==
    CHOOSE r \in { IF s = <<>> THEN s
                   ELSE IF s[Len(s)] = " " THEN rstrip(SubSeq(s, 1, Len(s) - 1)) ELSE s
                   : s \in {arg} } : TRUE

strip(s) == rstrip(lstrip(s))

\* str.split("|"): the texts between the separators, empty ones included
RECURSIVE split(_)
split(arg) ==
    CHOOSE r \in
      { IF \A i \in 1..Len(s) : s[i] # "|" THEN <<s>>
        ELSE LET i == CHOOSE k \in 1..Len(s) :
                          s[k] = "|" /\ \A j \in 1..(k - 1) : s[j] # "|"
             IN  <<SubSeq(s, 1, i - 1)>> \o split(SubSeq(s, i + 1, Len(s)))
        : s \in {arg} } : TRUE

\* str(n) of a natural number
RECURSIVE str_nat(_)
str_nat(arg) ==
    CHOOSE r \in { IF n < 10 THEN <<Digitos[n + 1]>>
                   ELSE str_nat(n \div 10) \o <<Digitos[(n % 10) + 1]>>
                   : n \in {arg} } : TRUE

\* str(n) of an int
str_int(n) == IF n < 0 THEN <<"-">> \o str_nat(-n) ELSE str_nat(n)

\* str(x) of the float n.0
str_float(n) == str_int(n) \o <<".", "0">>

\* value of a non-empty run of digits
RECURSIVE valor_nat(_)
valor_nat(arg) ==
    CHOOSE r \in { IF Len(s) = 1 THEN ValorDigito(s[1])
                   ELSE 10 * valor_nat(SubSeq(s, 1, Len(s) - 1)) + ValorDigito(s[Len(s)])
                   : s \in {arg} } : TRUE

SoloDigitos(s) == s # <<>> /\ \A i \in 1..Len(s) : EsDigito(s[i])

SinSigno(s) == IF s # <<>> /\ Head(s) \in {"-", "+"} THEN Tail(s) ELSE s

Signo(s) == IF s # <<>> /\ Head(s) = "-" THEN -1 ELSE 1

\* int(text): blanks around, an optional sign, then digits; ValueError otherwise
int_texto(arg) ==
    CHOOSE r \in
      { IF SoloDigitos(SinSigno(t))
        THEN [ok |-> TRUE, v |-> Signo(t) * valor_nat(SinSigno(t)), err |-> ""]
        ELSE [ok |-> FALSE, v |-> 0, err |-> "invalid literal for int()"]
        : t \in {strip(arg)} } : TRUE

\* index of the first "." of d, Len(d) + 1 when it has none
PosPunto(d) ==
    IF \E i \in 1..Len(d) : d[i] = "."
    THEN CHOOSE k \in 1..Len(d) : d[k] = "." /\ \A j \in 1..(k - 1) : d[j] # "."
    ELSE Len(d) + 1

\* float(text): blanks around, an optional sign, then digits with an optional
\* "." among them ("1", "1.", "1.0", ".0"); ValueError otherwise.  The value is
\* the whole part: the texts of the model carry no fraction digit but "0".
float_texto(arg) ==
    CHOOSE r \in
      { IF /\ entero = <<>> \/ SoloDigitos(entero)
           /\ fraccion = <<>> \/ SoloDigitos(fraccion)
           /\ entero # <<>> \/ fraccion # <<>>
        THEN [ok |-> TRUE,
              v |-> IF entero = <<>> THEN 0 ELSE signo * valor_nat(entero),
              err |-> ""]
        ELSE [ok |-> FALSE, v |-> 0, err |-> "could not convert string to float"]
        : signo \in {Signo(strip(arg))},
          entero \in {SubSeq(SinSigno(strip(arg)), 1, PosPunto(SinSigno(strip(arg))) - 1)},
          fraccion \in {SubSeq(SinSigno(strip(arg)),
                               PosPunto(SinSigno(strip(arg))) + 1,
                               Len(SinSigno(strip(arg))))} } : TRUE

\* ------------------------------------------------------------ Python values

\* An argument as the caller passes it: None, an int, a float or a str
Nada == [t |-> "None", v |-> 0, s |-> <<>>]
Ent(n) == [t |-> "int", v |-> n, s |-> <<>>]
Flt(n) == [t |-> "float", v |-> n, s |-> <<>>]
Txt(s) == [t |-> "str", v |-> 0, s |-> s]

\* int(x): an int as it is, a (whole) float truncated, a str parsed
py_int(x) == IF x.t = "str" THEN int_texto(x.s)
             ELSE [ok |-> TRUE, v |-> x.v, err |-> ""]

\* float(x): an int or float by value, a str parsed
py_float(x) == IF x.t = "str" THEN float_texto(x.s)
               ELSE [ok |-> TRUE, v |-> x.v, err |-> ""]

\* --------------------------------------------------------------- Producto

\* Producto.__init__: stores the four arguments as given, unvalidated
Producto(id, nombre, cantidad, precio) ==
    [id |-> id, nombre |-> nombre, cantidad |-> cantidad, precio |-> precio]

ErrCantidad == "La cantidad no puede ser negativa."
ErrPrecio == "El precio no puede ser negativo."

\* set_cantidad assigning before it validates
set_cantidad_asigna_antes(p, cantidad) ==
    IF cantidad < 0
    THEN [ok |-> FALSE, p |-> [p EXCEPT !.cantidad = cantidad], err |-> ErrCantidad]
    ELSE [ok |-> TRUE, p |-> [p EXCEPT !.cantidad = cantidad], err |-> ""]

\* Producto.set_cantidad: ValueError on a negative value, else assigns
set_cantidad(p, cantidad) ==
    IF cantidad < 0
    THEN [ok |-> FALSE, p |-> p, err |-> ErrCantidad]
    ELSE [ok |-> TRUE, p |-> [p EXCEPT !.cantidad = cantidad], err |-> ""]

\* Producto.set_precio: ValueError on a negative value, else assigns
set_precio(p, precio) ==
    IF precio < 0
    THEN [ok |-> FALSE, p |-> p, err |-> ErrPrecio]
    ELSE [ok |-> TRUE, p |-> [p EXCEPT !.precio = precio], err |-> ""]

\* ---------------------------------------------------- line <-> Producto

\* _producto_a_linea writing the price before the quantity
producto_a_linea_precio_antes(p) ==
    p.id \o <<"|">> \o p.nombre \o <<"|">> \o str_float(p.precio)
         \o <<"|">> \o str_int(p.cantidad)

\* Inventario._producto_a_linea: "id|nombre|cantidad|precio"
producto_a_linea(p) ==
    p.id \o <<"|">> \o p.nombre \o <<"|">> \o str_int(p.cantidad)
         \o <<"|">> \o str_float(p.precio)

\* Inventario._linea_a_producto after the split: the conversions in the order
\* of the code, the first ValueError wins
producto_de_partes(id_str, nombre, cantidad, precio) ==
    IF ~cantidad.ok
    THEN [ok |-> FALSE, p |-> Producto(<<>>, <<>>, 0, 0), err |-> cantidad.err]
    ELSE IF ~precio.ok
    THEN [ok |-> FALSE, p |-> Producto(<<>>, <<>>, 0, 0), err |-> precio.err]
    ELSE IF id_str = <<>> \/ nombre = <<>>
    THEN [ok |-> FALSE, p |-> Producto(<<>>, <<>>, 0, 0), err |-> "ID o nombre vacio."]
    ELSE [ok |-> TRUE, p |-> Producto(id_str, nombre, cantidad.v, precio.v), err |-> ""]

\* Inventario._linea_a_producto: the Producto of a line, or the ValueError
linea_a_producto(linea) ==
    CHOOSE r \in
      { IF Len(partes) # 4
        THEN [ok |-> FALSE, p |-> Producto(<<>>, <<>>, 0, 0), err |-> "Formato invalido"]
        ELSE CHOOSE q \in
               { producto_de_partes(id_str, nombre, cantidad, precio)
                 : id_str \in {strip(partes[1])},
                   nombre \in {strip(partes[2])},
                   cantidad \in {int_texto(strip(partes[3]))},
                   precio \in {float_texto(strip(partes[4]))} } : TRUE
        : partes \in {split(strip(linea))} } : TRUE

\* _buscar_por_id looking at the first product only
buscar_solo_primero(prods, id) ==
    IF Len(prods) > 0 /\ prods[1].id = id THEN 1 ELSE 0

\* Inventario._buscar_por_id: index of the first product with that id, 0 for None
buscar_por_id(prods, id) ==
    IF \E i \in 1..Len(prods) : prods[i].id = id
    THEN CHOOSE i \in 1..Len(prods) :
             prods[i].id = id /\ \A j \in 1..(i - 1) : prods[j].id # id
    ELSE 0

\* ------------------------------------------------------------------ files

\* A path of the file system: whether a file is there, and its lines
Ausente == [existe |-> FALSE, lineas |-> <<>>]
Fichero(lineas) == [existe |-> TRUE, lineas |-> lineas]

\* A byte that is not valid UTF-8, and a file free of them
ByteInvalido == "<FF>"

Decodificable(arch) ==
    \A n \in 1..Len(arch.lineas) :
        \A k \in 1..Len(arch.lineas[n]) : arch.lineas[n][k] # ByteInvalido

\* Outcomes of a system call
Errores == {"PermissionError", "OSError"}
Salidas == {"ok"} \cup Errores

\* A load warning: the 1-based line it is about (0: the file as a whole)
Aviso(linea, tipo, detalle) == [linea |-> linea, tipo |-> tipo, detalle |-> detalle]

\* Inventario._asegurar_archivo: creates the file when missing; a failed
\* creation appends a warning.  crear is the outcome of open(ruta, "w").
asegurar_archivo(arch, avisos, crear) ==
    IF arch.existe THEN [archivo |-> arch, avisos |-> avisos]
    ELSE IF crear = "ok" THEN [archivo |-> Fichero(<<>>), avisos |-> avisos]
    ELSE IF crear = "PermissionError"
         THEN [archivo |-> arch,
               avisos |-> Append(avisos, Aviso(0, "No se pudo crear", crear))]
         ELSE [archivo |-> arch,
               avisos |-> Append(avisos, Aviso(0, "Error del sistema creando", crear))]

\* the loop numbering the lines from 0 (enumerate without start=1)
cargar_linea_desde_cero(n, linea, r, est) ==
    IF linea = <<>> THEN est
    ELSE IF ~r.ok
    THEN [est EXCEPT !.avisos = Append(@, Aviso(n - 1, "corrupta", r.err))]
    ELSE IF buscar_por_id(est.productos, r.p.id) = 0
    THEN [est EXCEPT !.productos = Append(@, r.p)]
    ELSE [est EXCEPT !.avisos = Append(@, Aviso(n - 1, "ID duplicado", r.p.id))]

\* the loop letting a later line of an id overwrite the product of the first
cargar_linea_ultimo_gana(n, linea, r, est) ==
    IF linea = <<>> THEN est
    ELSE IF ~r.ok
    THEN [est EXCEPT !.avisos = Append(@, Aviso(n, "corrupta", r.err))]
    ELSE IF buscar_por_id(est.productos, r.p.id) = 0
    THEN [est EXCEPT !.productos = Append(@, r.p)]
    ELSE [est EXCEPT !.productos[buscar_por_id(est.productos, r.p.id)] = r.p,
                     !.avisos = Append(@, Aviso(n, "ID duplicado", r.p.id))]

\* The body of the for loop of Inventario._cargar_desde_archivo for line n,
\* given the line stripped and what _linea_a_producto makes of it: a blank
\* line is skipped, a line that does not parse or repeats an id adds a warning
cargar_linea(n, linea, r, est) ==
    IF linea = <<>> THEN est
    ELSE IF ~r.ok
    THEN [est EXCEPT !.avisos = Append(@, Aviso(n, "corrupta", r.err))]
    ELSE IF buscar_por_id(est.productos, r.p.id) = 0
    THEN [est EXCEPT !.productos = Append(@, r.p)]
    ELSE [est EXCEPT !.avisos = Append(@, Aviso(n, "ID duplicado", r.p.id))]

\* The for loop of Inventario._cargar_desde_archivo from line n on; est is the
\* list and the warnings so far
RECURSIVE cargar_lineas(_, _, _)
cargar_lineas(lineas, n, est0) ==
    CHOOSE res \in
      { IF n > Len(lineas) THEN est
        ELSE cargar_lineas(lineas, n + 1, est)
        : est \in { IF n > Len(lineas) THEN est0
                    ELSE CHOOSE e \in
                           { cargar_linea(n, linea, linea_a_producto(linea), est0)
                             : linea \in {strip(lineas[n])} } : TRUE } } : TRUE

\* Inventario._cargar_desde_archivo: empties the list and the warnings, then
\* reads the file.  io.lectura is the outcome of reading, which fails after
\* io.tras lines were read (0: at open); io.crear2 is the outcome of the
\* creation attempted after FileNotFoundError.  The text layer decodes the
\* file a block at a time, before the loop sees a line of the block: a byte
\* that is no UTF-8 raises UnicodeDecodeError (a ValueError, not an OSError)
\* in the for statement, outside the inner try, and no except clause of the
\* outer try takes it: error is the exception that leaves the method.
cargar_desde_archivo(arch, io) ==
    IF ~arch.existe
    THEN CHOOSE r \in
           { [productos |-> <<>>, avisos |-> a.avisos, archivo |-> a.archivo,
              error |-> ""]
             : a \in {asegurar_archivo(
                          arch, <<Aviso(0, "No se encontro", "FileNotFoundError")>>,
                          io.crear2)} } : TRUE
    ELSE IF io.lectura = "PermissionError"
    THEN [productos |-> <<>>,
          avisos |-> <<Aviso(0, "No hay permisos para leer", io.lectura)>>,
          archivo |-> arch,
          error |-> ""]
    ELSE IF ~Decodificable(arch) /\ ~(io.lectura = "OSError" /\ io.tras = 0)
    THEN [productos |-> <<>>, avisos |-> <<>>, archivo |-> arch,
          error |-> "UnicodeDecodeError"]
    ELSE CHOOSE r \in
           { [productos |-> c.productos,
              avisos |-> IF io.lectura = "OSError"
                         THEN Append(c.avisos,
                                     Aviso(0, "Error del sistema leyendo", io.lectura))
                         ELSE c.avisos,
              archivo |-> arch,
              error |-> ""]
             : c \in {cargar_lineas(
                          IF io.lectura = "OSError"
                          THEN SubSeq(arch.lineas, 1, io.tras) ELSE arch.lineas,
                          1, [productos |-> <<>>, avisos |-> <<>>])} } : TRUE

\* Inventario.__init__: empty list and warnings, _asegurar_archivo, then
\* _cargar_desde_archivo (which discards the warnings of the creation)
Inventario(arch, io) ==
    cargar_desde_archivo(asegurar_archivo(arch, <<>>, io.crear1).archivo, io)

\* The outcomes the system calls of one construction can have on a file: the
\* creations are attempted only when the file is missing, the read only when
\* it is there
Entornos(arch) ==
    IF arch.existe
    THEN [crear1 : {"ok"}, crear2 : {"ok"}, lectura : {"ok", "PermissionError"}, tras : {0}]
         \cup [crear1 : {"ok"}, crear2 : {"ok"}, lectura : {"OSError"},
               tras : 0..Len(arch.lineas)]
    ELSE [crear1 : Salidas, crear2 : Salidas, lectura : {"ok"}, tras : {0}]
         \cup [crear1 : {"ok"}, crear2 : {"ok"}, lectura : {"PermissionError"}, tras : {0}]
         \cup [crear1 : {"ok"}, crear2 : {"ok"}, lectura : {"OSError"}, tras : {0}]

\* The system calls of a construction that failed
FallosDe(arch, io) ==
    IF arch.existe THEN (IF io.lectura = "ok" THEN 0 ELSE 1)
    ELSE (IF io.crear1 = "ok" THEN (IF io.lectura = "ok" THEN 0 ELSE 1)
          ELSE (IF io.crear2 = "ok" THEN 1 ELSE 2))

\* ----------------------------------------------------------------- inputs

\* Products a caller constructs and hands to anadir_producto
Muestras ==
    { Producto(<<"a">>, <<"w">>, 1, 1),
      Producto(<<"b">>, <<"W">>, -1, -1) }

\* Ids a caller passes to eliminar_producto and actualizar_producto
IdsPedidos == {<<"a">>, <<"b">>, <<"c">>}

\* Arguments a caller passes as nueva_cantidad and nuevo_precio
CantidadesPedidas == {Nada, Ent(-1), Ent(0), Txt(<<"x">>)}
PreciosPedidos == {Nada, Flt(-1), Flt(0)}

\* Content of the backing file before the first construction
ArchivosIniciales ==
    { Ausente,
      Fichero(<<>>),
      Fichero(<< <<"a", "|", "w", "|", "1", "|", "1", ".", "0">>,
                 <<"b", "|", "w", "|", "x", "|", "1">>,
                 <<" ">>,
                 <<"a", "|", "W", "|", "0", "|", "2", ".", "0">> >>),
      Fichero(<< <<" ", "b", " ", "|", "W", "|", "-", "1", "|", "-", "1">> >>) }

\* ------------------------------------------------------------------ state

VARIABLES
    productos,      \* Inventario._productos
    avisos_carga,   \* Inventario._avisos_carga
    archivo,        \* the file at Inventario._ruta_archivo
    tmp,            \* the file at tmp_path, "<ruta>.tmp"
    pc,             \* position of the running operation, "idle" at the menu
    op,             \* the operation running or returning
    guardado,       \* what _guardar_todo returns
    limpieza,       \* what the finally block of _guardar_todo did
    previo,         \* the backing file as it was when _guardar_todo was entered
    retorno,        \* what the operation returns to its caller
    fallos,         \* system calls that failed so far
    vista,          \* the list a query returned, as its caller holds it
    impreso         \* what main printed about the operation that returned

vars == <<productos, avisos_carga, archivo, tmp, pc, op, guardado, limpieza,
          previo, retorno, fallos, vista, impreso>>

SinGuardar == [ok |-> FALSE, detalle |-> "-"]
SinRetorno == [ok |-> FALSE, msg |-> "-", detalle |-> "-"]

\* No query has returned a list: viva tells whether the caller holds the list
\* object of the store itself (then lista is not used: the list is productos)
\* or a list of its own, texto is the text searched
SinVista == [viva |-> FALSE, texto |-> Nada, lista |-> <<>>]

\* The state a process is in once main has constructed the Inventario on the
\* file a0: at the menu, or ended by the exception that left the constructor
Construccion(a0) ==
    \E io \in Entornos(a0) :
    \E inv \in {Inventario(a0, io)} :
          /\ FallosDe(a0, io) <= MaxFallos
          /\ productos = inv.productos
          /\ avisos_carga = inv.avisos
          /\ archivo = inv.archivo
          /\ tmp = Ausente
          /\ pc = IF inv.error = "" THEN "idle" ELSE "abortado"
          /\ op = "-"
          /\ guardado = SinGuardar
          /\ limpieza = "-"
          /\ previo = Ausente
          /\ retorno = SinRetorno
          /\ fallos = FallosDe(a0, io)
          /\ vista = SinVista
          /\ impreso = "-"

Init == \E a0 \in ArchivosIniciales : Construccion(a0)

\* a construction that rewrites the file with the lines it accepted
ReiniciarReescribiendo ==
    /\ pc = "idle"
    /\ \E io \in Entornos(archivo) :
       \E inv \in {Inventario(archivo, io)} :
             /\ fallos + FallosDe(archivo, io) <= MaxFallos
             /\ productos' = inv.productos
             /\ avisos_carga' = inv.avisos
             /\ archivo' = IF inv.archivo.existe
                           THEN Fichero([i \in 1..Len(inv.productos) |->
                                            producto_a_linea(inv.productos[i])])
                           ELSE inv.archivo
             /\ fallos' = fallos + FallosDe(archivo, io)
             /\ pc' = IF inv.error = "" THEN "idle" ELSE "abortado"
    /\ UNCHANGED <<tmp, op, guardado, limpieza, previo, retorno>>
    /\ UNCHANGED <<vista, impreso>>

\* A new process constructs the Inventario on the file as it now is (main)
Reiniciar ==
    /\ pc = "idle"
    /\ \E io \in Entornos(archivo) :
       \E inv \in {Inventario(archivo, io)} :
             /\ fallos + FallosDe(archivo, io) <= MaxFallos
             /\ productos' = inv.productos
             /\ avisos_carga' = inv.avisos
             /\ archivo' = inv.archivo
             /\ fallos' = fallos + FallosDe(archivo, io)
             /\ pc' = IF inv.error = "" THEN "idle" ELSE "abortado"
    /\ UNCHANGED <<tmp, op, guardado, limpieza, previo, retorno>>
    /\ UNCHANGED <<vista, impreso>>

\* ------------------------------------------------------- public operations

MsgYaExiste == "No se agrego: ya existe un producto con ID"
MsgNoEliminado == "No se elimino: no existe producto con ID"
MsgNoActualizado == "No se actualizo: no existe producto con ID"
MsgInvalido == "Datos invalidos, no se actualizo."

\* An operation returns at once, without _guardar_todo
Rechazar(nombre, msg, detalle) ==
    /\ op' = nombre
    /\ retorno' = [ok |-> FALSE, msg |-> msg, detalle |-> detalle]
    /\ pc' = "retornado"
    /\ UNCHANGED <<avisos_carga, archivo, tmp, guardado, limpieza, previo, fallos>>
    /\ UNCHANGED <<vista, impreso>>

\* An operation goes on into _guardar_todo
Guardar(nombre) ==
    /\ op' = nombre
    /\ pc' = "abrir"
    /\ previo' = archivo
    /\ guardado' = SinGuardar
    /\ limpieza' = "-"
    /\ retorno' = SinRetorno
    /\ UNCHANGED <<avisos_carga, archivo, tmp, fallos>>
    /\ UNCHANGED <<vista, impreso>>

\* anadir_producto overwriting the product that has the id
anadir_o_reemplazar(producto) ==
    /\ pc = "idle"
    /\ LET i == buscar_por_id(productos, producto.id)
       IN  IF i # 0
           THEN /\ productos' = [productos EXCEPT ![i] = producto]
                /\ Rechazar("anadir", MsgYaExiste, "")
           ELSE /\ productos' = Append(productos, producto)
                /\ Guardar("anadir")

\* Inventario.anadir_producto up to the call of _guardar_todo
anadir_producto(producto) ==
    /\ pc = "idle"
    /\ IF buscar_por_id(productos, producto.id) # 0
       THEN /\ UNCHANGED productos
            /\ Rechazar("anadir", MsgYaExiste, "")
       ELSE /\ productos' = Append(productos, producto)
            /\ Guardar("anadir")

\* list.pop() in place of list.remove: the last element goes
QuitarUltimo(prods, i) == SubSeq(prods, 1, Len(prods) - 1)

\* list.remove of the element at index i
Quitar(prods, i) == SubSeq(prods, 1, i - 1) \o SubSeq(prods, i + 1, Len(prods))

\* eliminar_producto saving also when the id was not found
eliminar_y_guardar_siempre(id) ==
    /\ pc = "idle"
    /\ LET i == buscar_por_id(productos, id)
       IN  /\ productos' = IF i = 0 THEN productos ELSE Quitar(productos, i)
           /\ Guardar("eliminar")

\* Inventario.eliminar_producto up to the call of _guardar_todo
eliminar_producto(id) ==
    /\ pc = "idle"
    /\ LET i == buscar_por_id(productos, id)
       IN  IF i = 0
           THEN /\ UNCHANGED productos
                /\ Rechazar("eliminar", MsgNoEliminado, "")
           ELSE /\ productos' = Quitar(productos, i)
                /\ Guardar("eliminar")

\* the try block validating both values before it assigns any
aplicar_cambios_atomico(p, nueva_cantidad, nuevo_precio) ==
    LET c == py_int(nueva_cantidad)
        f == py_float(nuevo_precio)
        hayC == nueva_cantidad.t # "None"
        hayF == nuevo_precio.t # "None"
    IN  IF hayC /\ ~c.ok THEN [ok |-> FALSE, p |-> p, err |-> c.err]
        ELSE IF hayC /\ c.v < 0 THEN [ok |-> FALSE, p |-> p, err |-> ErrCantidad]
        ELSE IF hayF /\ ~f.ok THEN [ok |-> FALSE, p |-> p, err |-> f.err]
        ELSE IF hayF /\ f.v < 0 THEN [ok |-> FALSE, p |-> p, err |-> ErrPrecio]
        ELSE [ok |-> TRUE,
              p |-> [p EXCEPT !.cantidad = IF hayC THEN c.v ELSE @,
                              !.precio = IF hayF THEN f.v ELSE @],
              err |-> ""]

\* The try block of Inventario.actualizar_producto on the product found: the
\* product as the block leaves it (the setters assign in place), and the
\* ValueError that ended it if any
aplicar_cambios(p, nueva_cantidad, nuevo_precio) ==
    LET c == py_int(nueva_cantidad)
        sc == set_cantidad(p, c.v)
        p1 == IF nueva_cantidad.t = "None" THEN p ELSE sc.p
        f == py_float(nuevo_precio)
        sp == set_precio(p1, f.v)
    IN  IF nueva_cantidad.t # "None" /\ ~c.ok THEN [ok |-> FALSE, p |-> p, err |-> c.err]
        ELSE IF nueva_cantidad.t # "None" /\ ~sc.ok THEN [ok |-> FALSE, p |-> sc.p, err |-> sc.err]
        ELSE IF nuevo_precio.t = "None" THEN [ok |-> TRUE, p |-> p1, err |-> ""]
        ELSE IF ~f.ok THEN [ok |-> FALSE, p |-> p1, err |-> f.err]
        ELSE IF ~sp.ok THEN [ok |-> FALSE, p |-> sp.p, err |-> sp.err]
        ELSE [ok |-> TRUE, p |-> sp.p, err |-> ""]

\* Inventario.actualizar_producto up to the call of _guardar_todo
actualizar_producto(id, nueva_cantidad, nuevo_precio) ==
    /\ pc = "idle"
    /\ LET i == buscar_por_id(productos, id)
       IN  IF i = 0
           THEN /\ UNCHANGED productos
                /\ Rechazar("actualizar", MsgNoActualizado, "")
           ELSE \E r \in {aplicar_cambios(productos[i], nueva_cantidad, nuevo_precio)} :
                    /\ productos' = [productos EXCEPT ![i] = r.p]
                    /\ IF r.ok THEN Guardar("actualizar")
                       ELSE Rechazar("actualizar", MsgInvalido, r.err)

\* ----------------------------------------------------------------- queries

Mayusculas ==
    <<"A", "B", "C", "D", "E", "F", "G", "H", "I", "J", "K", "L",
      "M", "N", "O", "P", "Q", "R", "S", "T", "U", "V", "W", "X",
      "Y", "Z">>

Minusculas ==
    <<"a", "b", "c", "d", "e", "f", "g", "h", "i", "j", "k", "l",
      "m", "n", "o", "p", "q", "r", "s", "t", "u", "v", "w", "x",
      "y", "z">>

\* str.lower() of a character and of a text (the letters A to Z)
lower_car(c) ==
    IF \E i \in 1..26 : Mayusculas[i] = c
    THEN Minusculas[CHOOSE i \in 1..26 : Mayusculas[i] = c]
    ELSE c

lower(s) == [k \in 1..Len(s) |-> lower_car(s[k])]

\* sub in s, of two texts
contiene(sub, s) ==
    \E i \in 0..(Len(s) - Len(sub)) : SubSeq(s, i + 1, i + Len(sub)) = sub

\* (texto or ""): None and the empty text give the empty text
texto_o_vacio(texto) == IF texto.t = "None" THEN <<>> ELSE texto.s

\* Inventario.buscar_por_nombre: a new list of the products whose name in
\* lower case has the text in lower case in it
buscar_por_nombre(prods, texto) ==
    SelectSeq(prods, LAMBDA p : contiene(lower(texto_o_vacio(texto)), lower(p.nombre)))

\* Texts a caller searches for
TextosBuscados == {Nada, Txt(<<>>), Txt(<<" ">>), Txt(<<"W">>)}

\* main, option 4: buscar_por_nombre returns its list to the caller
Buscar ==
    /\ pc = "idle"
    /\ \E texto \in TextosBuscados :
          vista' = [viva |-> FALSE, texto |-> texto,
                    lista |-> buscar_por_nombre(productos, texto)]
    /\ op' = "buscar"
    /\ pc' = "retornado"
    /\ UNCHANGED <<productos, avisos_carga, archivo, tmp, guardado, limpieza,
                   previo, retorno, fallos, impreso>>

\* main, option 5: Inventario.listar_productos returns self._productos, the
\* list object of the store itself
Listar ==
    /\ pc = "idle"
    /\ vista' = [viva |-> TRUE, texto |-> Nada, lista |-> <<>>]
    /\ op' = "listar"
    /\ pc' = "retornado"
    /\ UNCHANGED <<productos, avisos_carga, archivo, tmp, guardado, limpieza,
                   previo, retorno, fallos, impreso>>

\* length beyond which the caller adds no more to the list it holds
MaxVista == 3

\* The list the caller holds, and the caller making it nueva: a change of the
\* list object of the store is a change of productos
ListaDelLlamador == IF vista.viva THEN productos ELSE vista.lista

PonerLista(nueva) ==
    /\ IF vista.viva
       THEN productos' = nueva /\ UNCHANGED vista
       ELSE vista' = [vista EXCEPT !.lista = nueva] /\ UNCHANGED productos
    /\ UNCHANGED <<avisos_carga, archivo, tmp, pc, op, guardado, limpieza,
                   previo, retorno, fallos, impreso>>

TieneLista == pc = "retornado" /\ op \in {"buscar", "listar"}

\* the caller: lista.append(producto)
AnadirALista ==
    /\ TieneLista
    /\ Len(ListaDelLlamador) < MaxVista
    /\ \E producto \in Muestras : PonerLista(Append(ListaDelLlamador, producto))

\* the caller: lista.insert(0, producto)
InsertarEnLista ==
    /\ TieneLista
    /\ Len(ListaDelLlamador) < MaxVista
    /\ \E producto \in Muestras : PonerLista(<<producto>> \o ListaDelLlamador)

\* the caller: del lista[i]
BorrarDeLista ==
    /\ TieneLista
    /\ \E i \in 1..Len(ListaDelLlamador) : PonerLista(Quitar(ListaDelLlamador, i))

\* the caller lets go of the list: main is back at the menu
Soltar ==
    /\ TieneLista
    /\ pc' = "idle"
    /\ op' = "-"
    /\ vista' = SinVista
    /\ UNCHANGED <<productos, avisos_carga, archivo, tmp, guardado, limpieza,
                   previo, retorno, fallos, impreso>>

\* ------------------------------------------------------------ _guardar_todo

\* The lines _guardar_todo writes for a list of products
Serializar(prods) == [i \in 1..Len(prods) |-> producto_a_linea(prods[i])]

DetalleGuardado == "Inventario guardado"
DetalleDe(e) == IF e = "PermissionError" THEN "Permisos insuficientes al guardar"
                ELSE "Error del sistema al guardar"

\* A system call of _guardar_todo raises e: the matching except clause sets the
\* result and control passes to the finally block
Falla(e) ==
    /\ fallos < MaxFallos
    /\ fallos' = fallos + 1
    /\ guardado' = [ok |-> FALSE, detalle |-> DetalleDe(e)]
    /\ pc' = "limpiar"

\* _guardar_todo opening the backing file itself for writing
AbrirDestino ==
    /\ pc = "abrir"
    /\ \/ /\ archivo' = Fichero(<<>>)
          /\ tmp' = Fichero(<<>>)
          /\ pc' = "escribir"
          /\ UNCHANGED <<guardado, fallos>>
       \/ /\ \E e \in Errores : Falla(e)
          /\ UNCHANGED <<archivo, tmp>>
    /\ UNCHANGED <<productos, avisos_carga, op, limpieza, previo, retorno>>
    /\ UNCHANGED <<vista, impreso>>

\* open(tmp_path, "w"): creates or truncates the temporary file, or raises
AbrirTmp ==
    /\ pc = "abrir"
    /\ \/ /\ tmp' = Fichero(<<>>)
          /\ pc' = "escribir"
          /\ UNCHANGED <<guardado, fallos>>
       \/ /\ \E e \in Errores : Falla(e)
          /\ UNCHANGED tmp
    /\ UNCHANGED <<productos, avisos_carga, op, limpieza, previo, retorno>>
    /\ UNCHANGED archivo
    /\ UNCHANGED <<vista, impreso>>

\* f.write of the next product's line, or raises
EscribirLinea ==
    /\ pc = "escribir"
    /\ Len(tmp.lineas) < Len(productos)
    /\ \/ /\ tmp' = Fichero(Append(tmp.lineas,
                                   producto_a_linea(productos[Len(tmp.lineas) + 1])))
          /\ UNCHANGED <<pc, guardado, fallos>>
       \/ /\ \E e \in Errores : Falla(e)
          /\ UNCHANGED tmp
    /\ UNCHANGED <<productos, avisos_carga, archivo, op, limpieza, previo, retorno>>
    /\ UNCHANGED <<vista, impreso>>

\* the with block ends after the last line: the file is flushed and closed, or raises
CerrarTmp ==
    /\ pc = "escribir"
    /\ Len(tmp.lineas) = Len(productos)
    /\ \/ /\ pc' = "reemplazar"
          /\ UNCHANGED <<guardado, fallos>>
       \/ \E e \in Errores : Falla(e)
    /\ UNCHANGED <<productos, avisos_carga, archivo, tmp, op, limpieza, previo, retorno>>
    /\ UNCHANGED <<vista, impreso>>

\* _guardar_todo reporting success without having moved the temporary file
ReemplazarSinMover ==
    /\ pc = "reemplazar"
    /\ guardado' = [ok |-> TRUE, detalle |-> DetalleGuardado]
    /\ pc' = "limpiar"
    /\ UNCHANGED <<productos, avisos_carga, archivo, tmp, op, limpieza, previo,
                   retorno, fallos>>
    /\ UNCHANGED <<vista, impreso>>

\* a replace done as remove-then-rename: when it raises, the backing file is gone
ReemplazarNoAtomico ==
    /\ pc = "reemplazar"
    /\ \/ /\ archivo' = tmp
          /\ tmp' = Ausente
          /\ guardado' = [ok |-> TRUE, detalle |-> DetalleGuardado]
          /\ pc' = "limpiar"
          /\ UNCHANGED fallos
       \/ /\ \E e \in Errores : Falla(e)
          /\ archivo' = Ausente
          /\ UNCHANGED tmp
    /\ UNCHANGED <<productos, avisos_carga, op, limpieza, previo, retorno>>
    /\ UNCHANGED <<vista, impreso>>

\* os.replace(tmp_path, ruta): the temporary file becomes the backing file in
\* one step, or raises and both stay as they are
Reemplazar ==
    /\ pc = "reemplazar"
    /\ \/ /\ archivo' = tmp
          /\ tmp' = Ausente
          /\ guardado' = [ok |-> TRUE, detalle |-> DetalleGuardado]
          /\ pc' = "limpiar"
          /\ UNCHANGED fallos
       \/ /\ \E e \in Errores : Falla(e)
          /\ UNCHANGED <<archivo, tmp>>
    /\ UNCHANGED <<productos, avisos_carga, op, limpieza, previo, retorno>>
    /\ UNCHANGED <<vista, impreso>>

\* _guardar_todo without the removal in its finally block
LimpiarSinBorrar ==
    /\ pc = "limpiar"
    /\ limpieza' = "nada que borrar"
    /\ pc' = "fin"
    /\ UNCHANGED <<productos, avisos_carga, archivo, tmp, op, guardado, previo,
                   retorno, fallos>>
    /\ UNCHANGED <<vista, impreso>>

\* the finally block: os.remove of the temporary file if it exists; an OSError
\* of os.remove is swallowed
Limpiar ==
    /\ pc = "limpiar"
    /\ IF ~tmp.existe
       THEN /\ limpieza' = "nada que borrar"
            /\ UNCHANGED <<tmp, fallos>>
       ELSE \/ /\ tmp' = Ausente
               /\ limpieza' = "borrado"
               /\ UNCHANGED fallos
            \/ /\ fallos < MaxFallos
               /\ fallos' = fallos + 1
               /\ limpieza' = "OSError ignorado"
               /\ UNCHANGED tmp
    /\ pc' = "fin"
    /\ UNCHANGED <<productos, avisos_carga, archivo, op, guardado, previo, retorno>>
    /\ UNCHANGED <<vista, impreso>>

MsgGuardado(nombre) ==
    IF nombre = "anadir" THEN "Producto agregado y guardado."
    ELSE IF nombre = "eliminar" THEN "Producto eliminado y guardado."
    ELSE "Producto actualizado y guardado."

\* the operations reporting a failed resave with the invalid-data message
MsgNoGuardadoComoInvalido(nombre) == MsgInvalido

MsgNoGuardado(nombre) ==
    IF nombre = "anadir" THEN "Agregado en memoria, pero NO se pudo guardar."
    ELSE IF nombre = "eliminar" THEN "Eliminado en memoria, pero NO se pudo guardar."
    ELSE "Actualizado en memoria, pero NO se pudo guardar."

\* _guardar_todo has returned (ok, detalle): the operation builds its message
\* and returns (ok, msg)
Retornar ==
    /\ pc = "fin"
    /\ retorno' = [ok |-> guardado.ok,
                   msg |-> IF guardado.ok THEN MsgGuardado(op) ELSE MsgNoGuardado(op),
                   detalle |-> guardado.detalle]
    /\ pc' = "retornado"
    /\ guardado' = SinGuardar
    /\ limpieza' = "-"
    /\ previo' = Ausente
    /\ UNCHANGED <<productos, avisos_carga, archivo, tmp, op, fallos>>
    /\ UNCHANGED <<vista, impreso>>

\* main: the caller has taken the result and is back at the menu
Continuar ==
    /\ pc = "retornado"
    /\ pc' = "idle"
    /\ op' = "-"
    /\ retorno' = SinRetorno
    /\ UNCHANGED <<productos, avisos_carga, archivo, tmp, guardado, limpieza,
                   previo, fallos>>
    /\ UNCHANGED <<vista, impreso>>

\* ------------------------------------------------------------ specification

Anadir == \E producto \in Muestras : anadir_producto(producto)

Eliminar == \E id \in IdsPedidos : eliminar_producto(id)

Actualizar ==
    \E id \in IdsPedidos, c \in CantidadesPedidas, f \in PreciosPedidos :
        actualizar_producto(id, c, f)

Next ==
    \/ Reiniciar
    \/ Anadir
    \/ Eliminar
    \/ Actualizar
    \/ AbrirTmp
    \/ EscribirLinea
    \/ CerrarTmp
    \/ Reemplazar
    \/ Limpiar
    \/ Retornar
    \/ Continuar

Spec == Init /\ [][Next]_vars

\* ------------------------------------------- specification of the load alone

\* lines of a backing file (bound of ArchivosCarga)
MaxLineas == 3

\* Lines a backing file can hold: three valid ones (two of them with the same
\* id, one of these padded with blanks), one with three fields, one with a
\* quantity that is no integer, one with a price that is no number and one
\* with an empty id
LineasCarga ==
    { <<"a", "|", "w", "|", "1", "|", "1", ".", "0">>,
      <<" ", "a", " ", "|", " ", "W", " ", "|", "2", "|", "3", " ">>,
      <<"b", "|", "w", "|", "0", "|", "2">>,
      <<"c", "|", "w", "|", "1">>,
      <<"c", "|", "w", "|", "x", "|", "1">>,
      <<"c", "|", "w", "|", "1", "|", "x">>,
      <<"|", "w", "|", "1", "|", "1">> }

\* Content of the backing file before the construction: every file of at most
\* MaxLineas of these lines, two files with blank lines around a corrupt line,
\* and a file with a byte that is no UTF-8 after a valid line
ArchivosCarga ==
    { Fichero(lineas) : lineas \in UNION { [1..n -> LineasCarga] : n \in 0..MaxLineas } }
    \cup { Fichero(<< <<" ">>, <<"c", "|", "w", "|", "1">>, <<"b", "|", "w", "|", "0", "|", "2">> >>),
           Fichero(<< <<"a", "|", "w", "|", "1", "|", "1", ".", "0">>, <<>>, <<" ", " ">>,
                      <<"c", "|", " ", "|", "1", "|", "1">>, <<" ", "a", " ", "|", " ", "W", " ", "|", "2", "|", "3", " ">> >>),
           Fichero(<< <<"a", "|", "w", "|", "1", "|", "1", ".", "0">>, <<ByteInvalido>> >>) }

InitCarga == \E a0 \in ArchivosCarga : Construccion(a0)

NextCarga == Reiniciar

\* main constructing the Inventario, once and again, on a file that is there
SpecCarga == InitCarga /\ [][NextCarga]_vars

\* ------------------------------- specification of add, resave and load again

\* Products a caller hands to anadir_producto: one whose id and name the file
\* format carries as they are, one with a blank before its id, one with the
\* separator in its name, one with an empty name
MuestrasVariadas ==
    { Producto(<<"b">>, <<"W">>, -1, -1),
      Producto(<<" ", "a">>, <<"w">>, 0, 0),
      Producto(<<"c">>, <<"x", "|", "y">>, 1, 1),
      Producto(<<"d">>, <<>>, 1, 1) }

\* products in the list beyond which this specification adds no more
MaxProductos == 2

AnadirVariado ==
    /\ Len(productos) < MaxProductos
    /\ \E producto \in MuestrasVariadas : anadir_producto(producto)

InitIdaVuelta == Construccion(Fichero(<<>>))

NextIdaVuelta ==
    \/ AnadirVariado
    \/ AbrirTmp
    \/ EscribirLinea
    \/ CerrarTmp
    \/ Reemplazar
    \/ Limpiar
    \/ Retornar
    \/ Continuar
    \/ Reiniciar

\* main adding products to an empty file, and constructed again on the file
SpecIdaVuelta == InitIdaVuelta /\ [][NextIdaVuelta]_vars

\* ---------------------------------------------- specification of the queries

NextConsultas ==
    \/ Buscar
    \/ Listar
    \/ AnadirALista
    \/ InsertarEnLista
    \/ BorrarDeLista
    \/ Soltar

\* a caller that searches and lists, and changes the lists it is given
SpecConsultas == Init /\ [][NextConsultas]_vars

\* ------------------------------------------------- specification of the menu

\* bool() of a tuple: true when the tuple has an element
bool_tupla(t) == Len(t) # 0

\* main: the two messages of options 1, 2 and 3
ImpresoExito(nombre) ==
    IF nombre = "anadir" THEN "Producto anadido correctamente."
    ELSE IF nombre = "eliminar" THEN "Producto eliminado."
    ELSE "Producto actualizado."

ImpresoError(nombre) ==
    IF nombre = "anadir" THEN "Error: El ID ya existe."
    ELSE "Producto no encontrado."

\* main, option 3: int(input(...)) and float(input(...)) are what it passes
CantidadesMenu == {Ent(-1), Ent(0)}
PreciosMenu == {Flt(-1), Flt(0)}

ActualizarMenu ==
    \E id \in IdsPedidos, c \in CantidadesMenu, f \in PreciosMenu :
        actualizar_producto(id, c, f)

\* main: if inventario.<operation>(...): print(...) else: print(...), the
\* condition being the tuple (ok, msg) that the operation returned
Imprimir ==
    /\ pc = "retornado"
    /\ op \in {"anadir", "eliminar", "actualizar"}
    /\ impreso' = IF bool_tupla(<<retorno.ok, retorno.msg>>)
                  THEN ImpresoExito(op)
                  ELSE ImpresoError(op)
    /\ pc' = "impreso"
    /\ UNCHANGED <<productos, avisos_carga, archivo, tmp, op, guardado, limpieza,
                   previo, retorno, fallos, vista>>

\* main: the while loop shows the menu again
Menu ==
    /\ pc = "impreso"
    /\ pc' = "idle"
    /\ op' = "-"
    /\ retorno' = SinRetorno
    /\ impreso' = "-"
    /\ UNCHANGED <<productos, avisos_carga, archivo, tmp, guardado, limpieza,
                   previo, fallos, vista>>

NextMenu ==
    \/ Anadir
    \/ Eliminar
    \/ ActualizarMenu
    \/ AbrirTmp
    \/ EscribirLinea
    \/ CerrarTmp
    \/ Reemplazar
    \/ Limpiar
    \/ Retornar
    \/ Imprimir
    \/ Menu

\* the menu loop of main over options 1, 2 and 3
SpecMenu == Init /\ [][NextMenu]_vars

\* ----------------------------------------------------------------- claims

\* The steps of an operation that lie inside _guardar_todo
EnGuardado == pc \in {"abrir", "escribir", "reemplazar", "limpiar", "fin"}

\* C1: the in-memory list never holds two products with the same id
C1_IdsUnicos ==
    \A i, j \in 1..Len(productos) : i # j => productos[i].id # productos[j].id

\* C1 witness: add returns with two products in memory and its resave failed
C1_Testigo ==
    /\ pc = "retornado"
    /\ retorno.msg = MsgNoGuardado("anadir")
    /\ Len(productos) = 2

\* C2: when add, remove or update returns success, the backing file is the
\* serialization of the in-memory list, line for line
C2_ArchivoEsMemoria ==
    (pc = "retornado" /\ retorno.ok) => archivo = Fichero(Serializar(productos))

\* C2 witness: a success after an earlier system call failed, with products
C2_Testigo ==
    /\ pc = "retornado"
    /\ retorno.ok
    /\ fallos > 0
    /\ Len(productos) = 2

\* C3: once _guardar_todo has failed, the backing file is as it was when
\* _guardar_todo was entered: there if it was there, with the same lines
C3_FalloNoToca ==
    (pc \in {"limpiar", "fin"} /\ ~guardado.ok) => archivo = previo

\* C3 witness: os.replace (or the close before it) failed with the temporary
\* file fully written and the backing file holding other lines
C3_Testigo ==
    /\ pc = "limpiar"
    /\ ~guardado.ok
    /\ Len(productos) > 0
    /\ tmp = Fichero(Serializar(productos))
    /\ archivo.existe
    /\ archivo # tmp

\* C4: at every step of _guardar_todo the backing file is either as it was on
\* entry or the complete serialization of the in-memory list
C4_NuncaAMedias ==
    EnGuardado => (archivo = previo \/ archivo = Fichero(Serializar(productos)))

\* C4 witness: the temporary file holds one of two lines, the backing file
\* still its previous lines
C4_Testigo ==
    /\ pc = "escribir"
    /\ Len(productos) = 2
    /\ Len(tmp.lineas) = 1
    /\ archivo.existe
    /\ Len(archivo.lineas) > 0

\* C5 as claimed: after _guardar_todo the temporary file does not exist
C5_TmpNoExiste ==
    pc = "fin" => ~tmp.existe

\* C5 amended: after _guardar_todo the temporary file exists only if the
\* os.remove of the finally block itself failed, and never after a success
C5_TmpSoloSiFallaBorrar ==
    pc = "fin" => (tmp.existe <=> limpieza = "OSError ignorado")
               /\ (guardado.ok => ~tmp.existe)

\* C5 witness: _guardar_todo failed and the finally block removed the file
C5_Testigo ==
    /\ pc = "fin"
    /\ ~guardado.ok
    /\ limpieza = "borrado"
    /\ ~tmp.existe

\* C6 as claimed: no product in memory has a negative quantity or price
C6_NoNegativos ==
    \A i \in 1..Len(productos) :
        productos[i].cantidad >= 0 /\ productos[i].precio >= 0

\* The operation returned at once: no step of _guardar_todo was taken, the
\* backing file and the temporary file are as they were
SinResave ==
    /\ pc' = "retornado"
    /\ archivo' = archivo
    /\ tmp' = tmp
    /\ fallos' = fallos

\* C7: add of a product whose id is in memory returns failure, leaves the
\* list as it was and attempts no resave
C7_AnadirExistente ==
    [][pc = "idle" => \A producto \in Muestras :
          (buscar_por_id(productos, producto.id) # 0 /\ anadir_producto(producto))
          => /\ ~retorno'.ok
             /\ retorno'.msg = MsgYaExiste
             /\ productos' = productos
             /\ SinResave]_vars

\* C7 witness: add was refused while the list holds no product equal to any
\* the caller can pass, so the refused product differs from the stored one
C7_Testigo ==
    /\ pc = "retornado"
    /\ retorno.msg = MsgYaExiste
    /\ Len(productos) = 2
    /\ \A i \in 1..Len(productos) : productos[i] \notin Muestras

\* C8: remove and update of an id that is not in memory return failure, leave
\* the list as it was and attempt no resave
C8_IdDesconocido ==
    [][pc = "idle" => \A id \in IdsPedidos :
          buscar_por_id(productos, id) = 0
          => /\ eliminar_producto(id)
                => (~retorno'.ok /\ retorno'.msg = MsgNoEliminado
                    /\ productos' = productos /\ SinResave)
             /\ \A c \in CantidadesPedidas, f \in PreciosPedidos :
                   actualizar_producto(id, c, f)
                   => (~retorno'.ok /\ retorno'.msg = MsgNoActualizado
                       /\ productos' = productos /\ SinResave)]_vars

\* C8 witness: update of an unknown id was refused with products in memory
C8_Testigo ==
    /\ pc = "retornado"
    /\ retorno.msg = MsgNoActualizado
    /\ Len(productos) = 2

\* C9: update with a negative new quantity on a product in memory returns
\* failure, leaves that product's quantity as it was and attempts no resave
C9_CantidadNegativa ==
    [][pc = "idle" =>
       \A id \in IdsPedidos, f \in PreciosPedidos,
          c \in {x \in CantidadesPedidas : x.t = "int" /\ x.v < 0} :
          LET i == buscar_por_id(productos, id)
          IN  (i # 0 /\ actualizar_producto(id, c, f))
              => /\ ~retorno'.ok
                 /\ productos'[i].cantidad = productos[i].cantidad
                 /\ SinResave]_vars

\* C9 witness: update was refused by set_cantidad, and every product in
\* memory has a quantity that is not negative
C9_Testigo ==
    /\ pc = "retornado"
    /\ op = "actualizar"
    /\ retorno.detalle = ErrCantidad
    /\ Len(productos) = 2
    /\ \A i \in 1..Len(productos) : productos[i].cantidad >= 0

\* C10: update with a valid new quantity and a negative new price on a
\* product in memory returns failure and attempts no resave, yet the product
\* in memory has the new quantity (and its old price): the backing file is
\* as it was
C10_ActualizacionParcial ==
    [][pc = "idle" =>
       \A id \in IdsPedidos,
          c \in {x \in CantidadesPedidas : x.t = "int" /\ x.v >= 0},
          f \in {x \in PreciosPedidos : x.t \in {"int", "float"} /\ x.v < 0} :
          LET i == buscar_por_id(productos, id)
          IN  (i # 0 /\ actualizar_producto(id, c, f))
              => /\ ~retorno'.ok
                 /\ retorno'.msg = MsgInvalido
                 /\ productos' = [productos EXCEPT ![i].cantidad = c.v]
                 /\ SinResave]_vars

\* C10 witness: update was refused by set_precio with no system call ever
\* failed, memory holds quantity 0 and the backing file the old quantity 1
C10_Testigo ==
    /\ pc = "retornado"
    /\ retorno.detalle = ErrPrecio
    /\ fallos = 0
    /\ archivo.existe
    /\ \E i \in 1..Len(productos) :
          /\ i <= Len(archivo.lineas)
          /\ productos[i].cantidad = 0
          /\ archivo.lineas[i] = producto_a_linea([productos[i] EXCEPT !.cantidad = 1])

\* C11: add, remove and update that passed their precondition keep the list as
\* they changed it through every step of the resave; when the resave failed
\* they return failure with the list still so, the backing file as it was on
\* entry, and a message that is none of the duplicate-id, not-found and
\* invalid-data messages (nor the success message)
C11_FalloAlGuardar ==
    [][/\ (pc = "idle" /\ pc' = "abrir")
          => /\ op' = "anadir" => Len(productos') = Len(productos) + 1
             /\ op' = "eliminar" => Len(productos') = Len(productos) - 1
             /\ op' = "actualizar" => Len(productos') = Len(productos)
       /\ EnGuardado => productos' = productos
       /\ (pc = "fin" /\ ~guardado.ok)
          => /\ pc' = "retornado"
             /\ ~retorno'.ok
             /\ retorno'.msg \notin {MsgYaExiste, MsgNoEliminado, MsgNoActualizado,
                                     MsgInvalido, MsgGuardado(op)}
             /\ archivo' = previo]_vars

\* C11 witness: remove returned "not saved", the list is shorter than the
\* backing file, which still holds the line of the removed product
C11_Testigo ==
    /\ pc = "retornado"
    /\ op = "eliminar"
    /\ ~retorno.ok
    /\ retorno.msg = MsgNoGuardado("eliminar")
    /\ archivo.existe
    /\ Len(productos) = 1
    /\ Len(archivo.lineas) > 1


\* ---- the round trip through the file

\* A text the file format carries as it is: not empty, no separator in it, no
\* blank at either end
TextoLimpio(t) ==
    /\ t # <<>>
    /\ strip(t) = t
    /\ \A k \in 1..Len(t) : t[k] # "|"

\* The backing file is what a successful resave of the list leaves
RecienGuardado == archivo = Fichero(Serializar(productos))

\* A construction that read the file to its end: main is at the menu before
\* and after it, and no system call failed
CargaSinFallo == pc = "idle" /\ pc' = "idle" /\ fallos' = fallos

\* C12 as claimed: whatever list add has produced, once it is resaved a load
\* gives the same products in the same order and no warning
C12_IdaYVuelta ==
    [][(RecienGuardado /\ CargaSinFallo)
       => (productos' = productos /\ avisos_carga' = <<>>)]_vars

\* C12 amended: so it is when the id and the name of every product in the
\* list are texts the format carries as they are
C12_IdaYVueltaLimpia ==
    [][(/\ RecienGuardado
        /\ \A i \in 1..Len(productos) :
              TextoLimpio(productos[i].id) /\ TextoLimpio(productos[i].nombre)
        /\ CargaSinFallo)
       => (productos' = productos /\ avisos_carga' = <<>>)]_vars

\* C12 witness: two products of clean id and name, resaved; the first is no
\* product a caller added (a load has trimmed its id), the second one is, with
\* its negative quantity and price: the load of this file has no warning and
\* gives this list
C12_Testigo ==
    /\ pc = "idle"
    /\ RecienGuardado
    /\ Len(productos) = 2
    /\ \A i \in 1..2 : TextoLimpio(productos[i].id) /\ TextoLimpio(productos[i].nombre)
    /\ productos[1] \notin MuestrasVariadas
    /\ productos[2].cantidad < 0
    /\ \E inv \in {cargar_desde_archivo(
                      archivo, [crear1 |-> "ok", crear2 |-> "ok",
                                lectura |-> "ok", tras |-> 0])} :
          inv.productos = productos /\ inv.avisos = <<>>

\* ---- the load, read off the backing file

\* What _cargar_desde_archivo makes of a line: skipped as blank, rejected by
\* one of the checks of _linea_a_producto, or valid with the id it carries
LineaEnBlanco(l) == strip(l) = <<>>

LineaMala(l) ==
    /\ ~LineaEnBlanco(l)
    /\ LET partes == split(strip(l))
       IN  \/ Len(partes) # 4
           \/ ~int_texto(partes[3]).ok
           \/ ~float_texto(partes[4]).ok
           \/ strip(partes[1]) = <<>>
           \/ strip(partes[2]) = <<>>

LineaValida(l) == ~LineaEnBlanco(l) /\ ~LineaMala(l)

IdDeLinea(l) == strip(split(strip(l))[1])

\* The list and the warnings are those of a load that read the whole backing
\* file: no warning is about the file as such
CargaCompleta ==
    /\ pc = "idle"
    /\ archivo.existe
    /\ \A k \in 1..Len(avisos_carga) : avisos_carga[k].linea # 0

\* The valid lines of the backing file, by number, those among them that are
\* the first of their id, and the warnings about line n
Validas == {n \in 1..Len(archivo.lineas) : LineaValida(archivo.lineas[n])}

Primeras ==
    {n \in Validas : \A m \in Validas :
        m < n => IdDeLinea(archivo.lineas[m]) # IdDeLinea(archivo.lineas[n])}

AvisosDe(n) == {k \in 1..Len(avisos_carga) : avisos_carga[k].linea = n}

\* the k-th smallest number of S
Enesima(S, k) == CHOOSE n \in S : Cardinality({m \in S : m <= n}) = k

\* C13: after a load that read the whole file, every line that is not blank
\* and has other than 4 fields, a quantity that is no integer, a price that is
\* no number or an empty id or name has exactly one warning, which carries its
\* 1-based number and says the line is corrupt, a blank line has none, and the
\* list holds the products of the valid lines (each the first of its id) in
\* the order of the file, whatever lines lie before, between and after them
C13_LineasMalas ==
    CargaCompleta
    => /\ \A n \in 1..Len(archivo.lineas) :
             /\ LineaMala(archivo.lineas[n])
                => /\ Cardinality(AvisosDe(n)) = 1
                   /\ \A k \in AvisosDe(n) : avisos_carga[k].tipo = "corrupta"
             /\ LineaEnBlanco(archivo.lineas[n]) => AvisosDe(n) = {}
       /\ Len(productos) = Cardinality(Primeras)
       /\ \A k \in 1..Len(productos) :
             productos[k] = linea_a_producto(archivo.lineas[Enesima(Primeras, k)]).p

\* C13 witness: a corrupt line between two valid lines of different ids: both
\* are in memory, and the one warning is about line 2
C13_Testigo ==
    /\ CargaCompleta
    /\ Len(archivo.lineas) = 3
    /\ LineaValida(archivo.lineas[1])
    /\ LineaMala(archivo.lineas[2])
    /\ LineaValida(archivo.lineas[3])
    /\ Len(productos) = 2
    /\ Len(avisos_carga) = 1
    /\ avisos_carga[1].linea = 2

\* C14: after a load that read the whole file, of the valid lines that carry
\* one id the list holds the product of the first, once, and has no warning
\* about that line; every later one has exactly one warning, which says the
\* id is repeated
C14_PrimeroGana ==
    CargaCompleta
    => \A n \in Validas :
          IF n \in Primeras
          THEN /\ AvisosDe(n) = {}
               /\ Cardinality({k \in 1..Len(productos) :
                      productos[k].id = IdDeLinea(archivo.lineas[n])}) = 1
               /\ \E k \in 1..Len(productos) :
                      productos[k] = linea_a_producto(archivo.lineas[n]).p
          ELSE /\ Cardinality(AvisosDe(n)) = 1
               /\ \A k \in AvisosDe(n) : avisos_carga[k].tipo = "ID duplicado"

\* C14 witness: three valid lines of one id, the second not equal to the
\* first: one product in memory and two warnings
C14_Testigo ==
    /\ CargaCompleta
    /\ Len(archivo.lineas) = 3
    /\ \A n \in 1..3 : /\ LineaValida(archivo.lineas[n])
                       /\ IdDeLinea(archivo.lineas[n]) = <<"a">>
    /\ archivo.lineas[2] # archivo.lineas[1]
    /\ Len(productos) = 1
    /\ Len(avisos_carga) = 2

\* C15 as claimed: no operation, the construction included, ends in an
\* exception that nothing catches
C15_SinErrorNoCapturado ==
    pc # "abortado"

\* ---- the queries

\* C16 as claimed: whatever the caller does to the list that listar_productos
\* returned (append, insert, delete), the list of the store stays as it is
C16_ListaAjena ==
    [][(pc = "retornado" /\ op = "listar" /\ pc' = "retornado")
       => productos' = productos]_vars

\* the name has the text in it at some place, letter case apart
NombreContiene(nombre, q) ==
    \E i \in 0..(Len(nombre) - Len(q)) :
        \A k \in 1..Len(q) : lower_car(nombre[i + k]) = lower_car(q[k])

\* C17 as claimed: buscar_por_nombre(q) returns, in the order of the list, the
\* products whose name contains q letter case apart, all the products when q
\* is empty, None or blank, and changes neither the list nor the backing file
C17_BusquedaPorNombre ==
    [][(pc = "idle" /\ op' = "buscar")
       => LET q == texto_o_vacio(vista'.texto)
          IN  /\ vista'.lista =
                    IF strip(q) = <<>> THEN productos
                    ELSE SelectSeq(productos, LAMBDA p : NombreContiene(p.nombre, q))
              /\ productos' = productos
              /\ archivo' = archivo]_vars

\* ---- the menu

\* C18 as claimed: what the menu prints after an add, a remove or an update
\* agrees with the success flag the operation returned: the success message
\* when the flag is true, and when it is false 'Error: El ID ya existe.' for
\* an add and 'Producto no encontrado.' for a remove or an update
C18_ImpresoSegunExito ==
    pc = "impreso"
    => impreso = IF retorno.ok THEN ImpresoExito(op) ELSE ImpresoError(op)

\* C19: add places the new product last and leaves the earlier ones as they
\* were; remove of an id in memory deletes the product of that id and keeps the
\* others, fields and relative order; update of an id in memory, accepted or
\* refused, changes at most the quantity and price of the product of that id:
\* never its id, name or position, nor any other product; no later step of
\* the operation changes the list.  (Each case reads "the frame holds, or the
\* step is not that operation on that input".)
C19_OrdenYMarco ==
    [][/\ (pc = "idle" /\ op' = "anadir" /\ pc' = "abrir")
          => \A producto \in Muestras :
                \/ /\ Len(productos') = Len(productos) + 1
                   /\ productos'[Len(productos')] = producto
                   /\ \A j \in 1..Len(productos) : productos'[j] = productos[j]
                \/ ~anadir_producto(producto)
       /\ (pc = "idle" /\ op' = "eliminar")
          => \A id \in IdsPedidos :
                LET i == buscar_por_id(productos, id)
                IN  i # 0
                    => \/ /\ Len(productos') = Len(productos) - 1
                          /\ \A j \in 1..Len(productos') :
                                /\ productos'[j].id # id
                                /\ productos'[j] = IF j < i THEN productos[j]
                                                   ELSE productos[j + 1]
                       \/ ~eliminar_producto(id)
       /\ (pc = "idle" /\ op' = "actualizar")
          => \A id \in IdsPedidos :
                LET i == buscar_por_id(productos, id)
                IN  i # 0
                    => \/ /\ Len(productos') = Len(productos)
                          /\ productos'[i].id = id
                          /\ productos'[i].nombre = productos[i].nombre
                          /\ \A j \in 1..Len(productos) :
                                j # i => productos'[j] = productos[j]
                       \/ \A c \in CantidadesPedidas, f \in PreciosPedidos :
                             ~actualizar_producto(id, c, f)
       /\ pc # "idle" => productos' = productos]_vars

\* C19 witness: remove has deleted the first of two products (its resave
\* failed, so the backing file still shows both): the second is now first
C19_Testigo ==
    /\ pc = "retornado"
    /\ op = "eliminar"
    /\ retorno.msg = MsgNoGuardado("eliminar")
    /\ Len(productos) = 1
    /\ archivo.existe
    /\ Len(archivo.lineas) = 2
    /\ archivo.lineas[2] = producto_a_linea(productos[1])

\* C20: a construction on a backing file that exists leaves the file as it is,
\* rejected lines included; the file changes only when os.replace succeeds in
\* _guardar_todo, and then it holds the lines of the products in memory and
\* nothing else (a construction changes the path only by creating the file
\* when it is missing)
C20_CargaNoEscribe ==
    [][/\ (pc = "idle" /\ pc' = "idle" /\ archivo.existe) => archivo' = archivo
       /\ archivo' # archivo
          => \/ /\ pc = "idle" /\ pc' = "idle"
                /\ ~archivo.existe
                /\ archivo' = Fichero(<<>>)
             \/ /\ pc = "reemplazar"
                /\ guardado'.ok
                /\ archivo' = Fichero(Serializar(productos))]_vars

\* C20 witness: the load rejected lines; after a resave that failed, an
\* operation has returned success and the backing file, so far longer than
\* the list, now holds the lines of the products in memory
C20_Testigo ==
    /\ pc = "retornado"
    /\ retorno.ok
    /\ fallos > 0
    /\ \E k \in 1..Len(avisos_carga) : avisos_carga[k].tipo = "corrupta"
    /\ \E k \in 1..Len(avisos_carga) : avisos_carga[k].tipo = "ID duplicado"
    /\ Len(productos) > 0
    /\ archivo = Fichero(Serializar(productos))


====
